---------------------------- MODULE Spec2Model ----------------------------
(***************************************************************************)
(* A model of src/app.py, the Streamlit report viewer: the coercion        *)
(* helpers, load_report with its NaN fallback and its st.cache_data cache,  *)
(* the top-to-bottom render pass with its six tabs, the player label and    *)
(* selection, and the time-series downsample.                               *)
(*                                                                          *)
(* Python values are tagged records (field t is the Python type).  Strings  *)
(* are sequences of one-character strings, so that strip(), replace(),      *)
(* int() and float() are computed on characters.  A float is a decimal      *)
(* m * 10^-e, or one of nan, inf, -inf.                                     *)
(***************************************************************************)
EXTENDS Integers, Sequences, FiniteSets, TLC

VARIABLES
    files,    \* the file system: path -> text of the file, or NoFile
    cache,    \* st.cache_data of load_report: path_str -> cached report, or NoEntry
    pass,     \* the last render pass of the script: inputs and what it showed
    ld,       \* one call of load_report on a text (SpecLoad)
    co,       \* one call of _safe_int / _safe_float (SpecCoerce)
    lb,       \* one call of _label_row (SpecLabel)
    pl,       \* the Players tab: team filter and player selection (SpecPlayers)
    rn,       \* one render pass over a report object (SpecRender)
    ds        \* the time-series downsample step (SpecDownsample)

vars == <<files, cache, pass, ld, co, lb, pl, rn, ds>>

\* A component that the specification at hand does not run.
Idle == [pc |-> "idle"]

-----------------------------------------------------------------------------
(* Python values *)

PyNone == [t |-> "none"]
PyBool(b) == [t |-> "bool", v |-> b]
PyInt(n) == [t |-> "int", v |-> n]
\* the float m * 10^-e
PyFloat(m, e) == [t |-> "float", k |-> "fin", m |-> m, e |-> e]
PyNaN == [t |-> "float", k |-> "nan", m |-> 0, e |-> 0]
PyInf == [t |-> "float", k |-> "inf", m |-> 0, e |-> 0]
PyNegInf == [t |-> "float", k |-> "-inf", m |-> 0, e |-> 0]
PyStr(s) == [t |-> "str", v |-> s]
PyList(s) == [t |-> "list", v |-> s]
\* a dict is the sequence of its <<key, value>> items, in insertion order
PyDict(items) == [t |-> "dict", v |-> items]

\* the dict {} and the list []
EmptyDict == PyDict(<<>>)
EmptyList == PyList(<<>>)

IsStr(x) == x.t = "str"
IsFloat(x) == x.t = "float"

-----------------------------------------------------------------------------
(* Characters and strings *)

Digit == {"0", "1", "2", "3", "4", "5", "6", "7", "8", "9"}
DigitVal(c) ==
    CASE c = "0" -> 0 [] c = "1" -> 1 [] c = "2" -> 2 [] c = "3" -> 3
      [] c = "4" -> 4 [] c = "5" -> 5 [] c = "6" -> 6 [] c = "7" -> 7
      [] c = "8" -> 8 [] c = "9" -> 9
DigitChar(n) ==
    CASE n = 0 -> "0" [] n = 1 -> "1" [] n = 2 -> "2" [] n = 3 -> "3"
      [] n = 4 -> "4" [] n = 5 -> "5" [] n = 6 -> "6" [] n = 7 -> "7"
      [] n = 8 -> "8" [] n = 9 -> "9"

\* str.isspace() on the characters of the model
IsSpace(c) == c \in {" ", "\t", "\n"}

\* the index of the first / last non-blank character (0 when all are blank)
FirstNonSpace(s) ==
    IF \E i \in 1..Len(s) : ~IsSpace(s[i])
    THEN CHOOSE i \in 1..Len(s) : ~IsSpace(s[i]) /\ \A j \in 1..(i - 1) : IsSpace(s[j])
    ELSE 0
LastNonSpace(s) ==
    IF \E i \in 1..Len(s) : ~IsSpace(s[i])
    THEN CHOOSE i \in 1..Len(s) : ~IsSpace(s[i]) /\ \A j \in (i + 1)..Len(s) : IsSpace(s[j])
    ELSE 0

\* str.strip()
Strip(s) ==
    IF FirstNonSpace(s) = 0 THEN <<>> ELSE SubSeq(s, FirstNonSpace(s), LastNonSpace(s))

\* str.lower() on the letters that spell nan, inf and infinity
LowerChar(c) ==
    CASE c = "N" -> "n" [] c = "A" -> "a" [] c = "I" -> "i" [] c = "F" -> "f"
      [] c = "T" -> "t" [] c = "Y" -> "y" [] OTHER -> c
Lower(s) == [i \in 1..Len(s) |-> LowerChar(s[i])]

\* the decimal digits of a natural number
RECURSIVE NatDigits(_)
NatDigits(n) == IF n < 10 THEN <<DigitChar(n)>> ELSE NatDigits(n \div 10) \o <<DigitChar(n % 10)>>
IntDigits(n) == IF n < 0 THEN <<"-">> \o NatDigits(-n) ELSE NatDigits(n)

\* the number a sequence of digits spells
RECURSIVE DigitsVal(_)
DigitsVal(s) ==
    IF Len(s) = 0 THEN 0 ELSE 10 * DigitsVal(SubSeq(s, 1, Len(s) - 1)) + DigitVal(s[Len(s)])

AllDigits(s) == Len(s) > 0 /\ \A i \in 1..Len(s) : s[i] \in Digit

RECURSIVE Pow10(_)
Pow10(e) == IF e = 0 THEN 1 ELSE 10 * Pow10(e - 1)


\* a float literal's value with the trailing zeros of its fraction dropped,
\* so that equal floats are equal records
RECURSIVE NormFloat(_, _)
NormFloat(m, e) ==
    IF e > 0 /\ m % 10 = 0 THEN NormFloat(m \div 10, e - 1) ELSE PyFloat(m, e)

-----------------------------------------------------------------------------
(* Utils: src/app.py lines 16-50 *)

\* the outcome of a Python expression: a value, or a raised exception
Ok(v) == [exc |-> "", val |-> v]
Raise(e) == [exc |-> e, val |-> PyNone]

\* the exception classes of the model; all derive from Exception
ExceptionClasses == {"ValueError", "TypeError", "OverflowError", "KeyError",
                     "AttributeError", "IndexError", "JSONDecodeError"}

\* _is_nan(x): x is None or (isinstance(x, float) and math.isnan(x))
is_nan(x) == x.t = "none" \/ (IsFloat(x) /\ x.k = "nan")

\* an optional sign, then the rest
Unsigned(s) == IF Len(s) > 0 /\ s[1] \in {"+", "-"} THEN Tail(s) ELSE s
Negative(s) == Len(s) > 0 /\ s[1] = "-"

\* int(str): surrounding whitespace, an optional sign, decimal digits
IntOfStr(s) ==
    LET body == Unsigned(Strip(s))
    IN  IF AllDigits(body)
        THEN Ok(PyInt(IF Negative(Strip(s)) THEN -DigitsVal(body) ELSE DigitsVal(body)))
        ELSE Raise("ValueError")

\* the place of the decimal point in s (0 when there is none)
PointAt(s) == IF \E i \in 1..Len(s) : s[i] = "." THEN CHOOSE i \in 1..Len(s) : s[i] = "." /\ \A j \in 1..(i - 1) : s[j] # "." ELSE 0

\* float(str): surrounding whitespace, an optional sign, then nan, inf or
\* infinity in any case, or digits with at most one decimal point
FloatOfStr(s) ==
    LET neg == Negative(Strip(s))
        body == Unsigned(Strip(s))
        low == Lower(body)
        p == PointAt(body)
        whole == IF p = 0 THEN body ELSE SubSeq(body, 1, p - 1)
        frac == IF p = 0 THEN <<>> ELSE SubSeq(body, p + 1, Len(body))
        mant == DigitsVal(whole \o frac)
    IN  IF low = <<"n", "a", "n">> THEN Ok(PyNaN)
        ELSE IF low \in {<<"i", "n", "f">>, <<"i", "n", "f", "i", "n", "i", "t", "y">>}
        THEN Ok(IF neg THEN PyNegInf ELSE PyInf)
        ELSE IF Len(whole \o frac) > 0 /\ (\A i \in 1..Len(whole) : whole[i] \in Digit)
                /\ (\A i \in 1..Len(frac) : frac[i] \in Digit)
        THEN Ok(NormFloat(IF neg THEN -mant ELSE mant, Len(frac)))
        ELSE Raise("ValueError")

\* int(x)
py_int(x) ==
    CASE x.t = "bool" -> Ok(PyInt(IF x.v THEN 1 ELSE 0))
      [] x.t = "int" -> Ok(x)
      [] x.t = "float" ->
            IF x.k = "nan" THEN Raise("ValueError")
            ELSE IF x.k # "fin" THEN Raise("OverflowError")
            ELSE Ok(PyInt(IF x.m >= 0 THEN x.m \div Pow10(x.e) ELSE -((-x.m) \div Pow10(x.e))))
      [] x.t = "str" -> IntOfStr(x.v)
      [] OTHER -> Raise("TypeError")

\* float(x)
py_float(x) ==
    CASE x.t = "bool" -> Ok(PyFloat(IF x.v THEN 1 ELSE 0, 0))
      [] x.t = "int" -> Ok(PyFloat(x.v, 0))
      [] x.t = "float" -> Ok(x)
      [] x.t = "str" -> FloatOfStr(x.v)
      [] OTHER -> Raise("TypeError")

\* the clause "except Exception:" of _safe_int and _safe_float
CatchesNarrow(e) == e = "ValueError"
Catches(e) == e \in ExceptionClasses

\* try: return conv(x) / except Exception: return default
TryOrDefault(r, default) == IF r.exc # "" /\ Catches(r.exc) THEN Ok(default) ELSE r

\* _safe_int(x, default)
safe_int(x, default) == IF is_nan(x) THEN Ok(default) ELSE TryOrDefault(py_int(x), default)

\* _safe_float(x, default)
safe_float(x, default) == IF is_nan(x) THEN Ok(default) ELSE TryOrDefault(py_float(x), default)

-----------------------------------------------------------------------------
(* dict.get, Series.get, str.replace, str(x) *)

HasKey(items, k) == \E i \in 1..Len(items) : items[i][1] = k

\* d.get(k, default) of a dict, r.get(k, default) of a row (a pandas Series)
DictGet(items, k, default) ==
    IF HasKey(items, k)
    THEN items[CHOOSE i \in 1..Len(items) :
                   items[i][1] = k /\ \A j \in (i + 1)..Len(items) : items[j][1] # k][2]
    ELSE default

\* s.replace(old, new): the occurrences of old, left to right, not overlapping
RECURSIVE Replace(_, _, _)
Replace(s, old, new) ==
    IF Len(s) < Len(old) THEN s
    ELSE IF SubSeq(s, 1, Len(old)) = old
    THEN new \o Replace(SubSeq(s, Len(old) + 1, Len(s)), old, new)
    ELSE <<s[1]>> \o Replace(Tail(s), old, new)

\* the digits of the fraction of a float, e of them
RECURSIVE FracDigits(_, _)
FracDigits(f, e) ==
    IF e = 0 THEN <<>> ELSE FracDigits(f \div 10, e - 1) \o <<DigitChar(f % 10)>>

\* f"{x}" of a scalar
Format(x) ==
    CASE x.t = "str" -> x.v
      [] x.t = "none" -> <<"N", "o", "n", "e">>
      [] x.t = "bool" -> IF x.v THEN <<"T", "r", "u", "e">> ELSE <<"F", "a", "l", "s", "e">>
      [] x.t = "int" -> IntDigits(x.v)
      [] x.t = "float" ->
            IF x.k = "nan" THEN <<"n", "a", "n">>
            ELSE IF x.k = "inf" THEN <<"i", "n", "f">>
            ELSE IF x.k = "-inf" THEN <<"-", "i", "n", "f">>
            ELSE LET a == IF x.m < 0 THEN -x.m ELSE x.m
                 IN  (IF x.m < 0 THEN <<"-">> ELSE <<>>) \o NatDigits(a \div Pow10(x.e))
                        \o <<".">> \o (IF x.e = 0 THEN <<"0">> ELSE FracDigits(a % Pow10(x.e), x.e))

-----------------------------------------------------------------------------
(* SpecCoerce: the coercion helpers applied to every kind of input *)

\* integers of the inputs range over -MaxInt..MaxInt
MaxInt == 3

FiniteNumbers ==
    {PyInt(n) : n \in (-MaxInt)..MaxInt}
        \cup {PyFloat(0, 0), PyFloat(35, 1), PyFloat(-35, 1), PyFloat(30, 0), PyFloat(999, 3)}
NumericStrings ==
    {PyStr(<<"3">>), PyStr(<<"-", "4">>), PyStr(<<" ", "7", " ">>), PyStr(<<"+", "2">>),
     PyStr(<<"1", "0">>), PyStr(<<"3", ".", "5">>), PyStr(<<".", "5">>), PyStr(<<"-", "2", ".">>)}
Bools == {PyBool(TRUE), PyBool(FALSE)}
Infinities == {PyInf, PyNegInf}
\* strings that spell a float that is not a number
NanInfStrings ==
    {PyStr(<<"n", "a", "n">>), PyStr(<<"N", "a", "N">>), PyStr(<<"i", "n", "f">>),
     PyStr(<<"-", "i", "n", "f">>), PyStr(<<"I", "n", "f", "i", "n", "i", "t", "y">>)}
NonNumericStrings ==
    {PyStr(<<>>), PyStr(<<" ">>), PyStr(<<"a", "b", "c">>), PyStr(<<"3", "a">>),
     PyStr(<<"1", ".", "2", ".", "3">>), PyStr(<<"-">>), PyStr(<<"7", " ", "7">>), PyStr(<<".">>)}
Containers ==
    {EmptyList, PyList(<<PyInt(1)>>), EmptyDict, PyDict(<<<<"fps", PyInt(30)>>>>)}

CoInputs ==
    FiniteNumbers \cup NumericStrings \cup Bools \cup Infinities \cup NanInfStrings
        \cup NonNumericStrings \cup Containers \cup {PyNone, PyNaN}

\* the defaults the callers pass (0, 0.0, 30.0) and one more
CoDefaults == {PyInt(0), PyFloat(0, 0), PyFloat(30, 0), PyInt(-1)}

CoInit == co \in [pc : {"input"}, x : CoInputs, d : CoDefaults, out : {Ok(PyNone)}]

CallSafeInt ==
    /\ co.pc = "input"
    /\ co' = [co EXCEPT !.pc = "safe_int", !.out = safe_int(co.x, co.d)]
    /\ UNCHANGED <<files, cache, pass, ld, lb, pl, rn, ds>>

CallSafeFloat ==
    /\ co.pc = "input"
    /\ co' = [co EXCEPT !.pc = "safe_float", !.out = safe_float(co.x, co.d)]
    /\ UNCHANGED <<files, cache, pass, ld, lb, pl, rn, ds>>

CoNext == CallSafeInt \/ CallSafeFloat

CoReturned == co.pc \in {"safe_int", "safe_float"}

\* C7 (as amended): _safe_int and _safe_float never raise; they return exactly
\* the supplied default for None, NaN, a non-numeric string, a list and a
\* dict, and _safe_int also for an infinity; a bool is converted to 0 or 1,
\* and _safe_float returns an infinity, and the float a string such as
\* "nan" or "inf" spells, as it is.
C7_CoercionTotal ==
    CoReturned =>
        /\ co.out.exc = ""
        /\ co.x \in NonNumericStrings \cup Containers \cup {PyNone, PyNaN}
              => co.out.val = co.d
        /\ co.pc = "safe_int" /\ co.x \in Infinities \cup NanInfStrings => co.out.val = co.d
        /\ co.pc = "safe_int" /\ co.x \in Bools => co.out.val = PyInt(IF co.x.v THEN 1 ELSE 0)
        /\ co.pc = "safe_float" /\ co.x \in Bools => co.out.val = PyFloat(IF co.x.v THEN 1 ELSE 0, 0)
        /\ co.pc = "safe_float" /\ co.x \in Infinities => co.out.val = co.x
        /\ co.pc = "safe_float" /\ co.x \in NanInfStrings
              => co.out.val \in Infinities \cup {PyNaN}

\* a list coerced by _safe_int gives the default, which is not 0
C7_Witness ==
    /\ co.pc = "safe_int"
    /\ co.x = PyList(<<PyInt(1)>>)
    /\ co.d = PyInt(-1)
    /\ co.out = Ok(PyInt(-1))

\* C7 (as stated): the helpers never raise, and every input that is not a
\* finite number or a numeric string gives exactly the supplied default.
\* (A bool, which Python counts as an int, and a string that float() reads
\* as nan or inf are left out of the inputs that must give the default.)
C7_Original ==
    CoReturned =>
        /\ co.out.exc = ""
        /\ co.x \notin FiniteNumbers \cup NumericStrings \cup Bools \cup NanInfStrings
              => co.out.val = co.d

-----------------------------------------------------------------------------
(* Players tab, the label of a row: src/app.py lines 200-212 *)

\* isinstance(x, str) and x.strip()
NonBlankStr(x) == IsStr(x) /\ Strip(x.v) # <<>>

DASH == PyStr(<<"-">>)
UNKNOWN == <<"U", "n", "k", "n", "o", "w", "n">>

\* the f-string of _label_row before .replace("  ", " ").strip()
LabelRaw(team, jersey_txt, name_txt, tid) ==
    <<"[">> \o Format(team) \o <<"]", " ">> \o jersey_txt \o <<" ">> \o name_txt
        \o <<" ", "(", "t", "i", "d", "=">> \o Format(tid) \o <<")">>

\* _label_row with the name left out when there is none, as the jersey is
label_row_no_unknown(r) ==
    LET name == DictGet(r, "player_name", PyNone)
        jersey == DictGet(r, "jersey", PyNone)
    IN  Strip(Replace(LabelRaw(DictGet(r, "team_name", DASH),
                               IF NonBlankStr(jersey) THEN <<"#">> \o jersey.v ELSE <<>>,
                               IF NonBlankStr(name) THEN name.v ELSE <<>>,
                               DictGet(r, "track_id", DASH)),
                      <<" ", " ">>, <<" ">>))

\* _label_row(r)
label_row(r) ==
    LET team == DictGet(r, "team_name", DASH)
        tid == DictGet(r, "track_id", DASH)
        jersey == DictGet(r, "jersey", PyNone)
        name == DictGet(r, "player_name", PyNone)
        jersey_txt == IF NonBlankStr(jersey) THEN <<"#">> \o jersey.v ELSE <<>>
        name_txt == IF NonBlankStr(name) THEN name.v ELSE UNKNOWN
    IN  Strip(Replace(LabelRaw(team, jersey_txt, name_txt, tid), <<" ", " ">>, <<" ">>))

\* lines 210-212: the label column is computed unless the rows bring their own
WithLabel(r) ==
    IF HasKey(r, "label") THEN r ELSE r \o <<<<"label", PyStr(label_row(r))>>>>

-----------------------------------------------------------------------------
(* SpecLabel: _label_row applied to every shape of player row *)

\* a column the frame does not have
NoCol == [t |-> "nocol"]

RED == PyStr(<<"R", "e", "d">>)
KIM == PyStr(<<"K", "i", "m">>)
SEVEN == PyStr(<<"7">>)

LbTeams == {NoCol, RED, PyNaN, PyNone, PyStr(<<"A", " ", " ", "B">>)}
LbTrackIds == {NoCol, PyInt(3), PyFloat(3, 0), PyInt(12)}
LbJerseys == {NoCol, PyNone, SEVEN, PyStr(<<" ">>), PyInt(7), PyStr(<<"7", " ">>)}
LbNames == {NoCol, PyNone, KIM, PyStr(<<>>), PyStr(<<" ">>), PyNaN, PyStr(<<" ", "K", "i", "m">>)}
LbLabels == {NoCol, PyStr(<<"L">>)}

Col(k, x) == IF x = NoCol THEN <<>> ELSE <<<<k, x>>>>

\* the row with these cells, in the order the pipeline writes them
PlayerRow(tid, team, jersey, name, label) ==
    Col("track_id", tid) \o Col("team_name", team) \o Col("jersey", jersey)
        \o Col("player_name", name) \o Col("label", label)

LbRows ==
    {PlayerRow(tid, team, jersey, name, label) :
        tid \in LbTrackIds, team \in LbTeams, jersey \in LbJerseys,
        name \in LbNames, label \in LbLabels}

LbInit == lb \in [pc : {"row"}, r : LbRows, out : {<<>>}]

ApplyLabel ==
    /\ lb.pc = "row"
    /\ lb' = [lb EXCEPT !.pc = "labelled", !.out = WithLabel(lb.r)]
    /\ UNCHANGED <<files, cache, pass, ld, co, pl, rn, ds>>

LbNext == ApplyLabel

\* a text without leading, trailing or doubled blanks
CleanText(s) ==
    /\ Strip(s) = s
    /\ \A i \in 1..(Len(s) - 1) : ~(s[i] = " " /\ s[i + 1] = " ")

\* the texts _label_row puts into the label are clean
CleanRow(r) ==
    /\ IsStr(DictGet(r, "team_name", DASH)) => CleanText(DictGet(r, "team_name", DASH).v)
    /\ NonBlankStr(DictGet(r, "jersey", PyNone)) => CleanText(DictGet(r, "jersey", PyNone).v)
    /\ NonBlankStr(DictGet(r, "player_name", PyNone)) => CleanText(DictGet(r, "player_name", PyNone).v)

LbTeamTxt(r) == <<"[">> \o Format(DictGet(r, "team_name", DASH)) \o <<"]">>
LbTidTxt(r) == <<"t", "i", "d", "=">> \o Format(DictGet(r, "track_id", DASH))
LbLabel == DictGet(lb.out, "label", PyNone).v

\* C3 (as amended): for a player row that brings no label of its own and
\* whose texts hold no leading, trailing or doubled blanks, the label is
\* "[{team_name}] #{jersey} {name} (tid={track_id})", where "#{jersey} " is
\* left out when jersey is not a non-blank string and name is "Unknown" when
\* player_name is not a non-blank string; the label never starts or ends
\* with a blank.
C3_Label ==
    lb.pc = "labelled" /\ ~HasKey(lb.r, "label") =>
        LET jersey == DictGet(lb.r, "jersey", PyNone)
            name == DictGet(lb.r, "player_name", PyNone)
        IN  /\ Strip(LbLabel) = LbLabel
            /\ CleanRow(lb.r) =>
                  LbLabel = LbTeamTxt(lb.r) \o <<" ">>
                              \o (IF NonBlankStr(jersey) THEN <<"#">> \o jersey.v \o <<" ">> ELSE <<>>)
                              \o (IF NonBlankStr(name) THEN name.v ELSE UNKNOWN)
                              \o <<" ", "(">> \o LbTidTxt(lb.r) \o <<")">>

\* team Red, jersey "7", no name, track_id 3 is labelled "[Red] #7 Unknown (tid=3)"
C3_Witness ==
    /\ lb.pc = "labelled"
    /\ lb.r = PlayerRow(PyInt(3), RED, SEVEN, PyNone, NoCol)
    /\ LbLabel = <<"[", "R", "e", "d", "]", " ", "#", "7", " ", "U", "n", "k", "n", "o", "w", "n",
                   " ", "(", "t", "i", "d", "=", "3", ")">>

\* C3 (as stated): with a non-blank player_name (and a jersey) the label is
\* "[{team_name}] #{jersey} {player_name} (tid={track_id})", and with no
\* player_name it is "[{team_name}] tid={track_id}", jersey or not.
C3_Original ==
    lb.pc = "labelled" /\ ~HasKey(lb.r, "label") /\ CleanRow(lb.r) =>
        LET jersey == DictGet(lb.r, "jersey", PyNone)
            name == DictGet(lb.r, "player_name", PyNone)
        IN  /\ NonBlankStr(name) /\ NonBlankStr(jersey) =>
                  LbLabel = LbTeamTxt(lb.r) \o <<" ", "#">> \o jersey.v \o <<" ">> \o name.v
                              \o <<" ", "(">> \o LbTidTxt(lb.r) \o <<")">>
            /\ ~NonBlankStr(name) => LbLabel = LbTeamTxt(lb.r) \o <<" ">> \o LbTidTxt(lb.r)

-----------------------------------------------------------------------------
(* DataFrames: src/app.py lines 65-71, 278-282 *)

\* A DataFrame is its set of column names, its index (the label of each row:
\* the row's position when the frame was built) and its rows; a row holds a
\* cell for the columns it was given.
DataFrame(cols, index, rows) == [cols |-> cols, index |-> index, rows |-> rows]
EmptyFrame == DataFrame({}, <<>>, <<>>)

\* the keys of a dict's items
Keys(items) == {items[i][1] : i \in 1..Len(items)}

\* pd.DataFrame(list): one row per element, the columns are the keys of the
\* dicts; an element that is no dict is a row with the one column 0
RowOf(x) == IF x.t = "dict" THEN x.v ELSE <<<<"0", x>>>>
FrameOfList(list) ==
    DataFrame(UNION {Keys(RowOf(list[i])) : i \in 1..Len(list)},
              [i \in 1..Len(list) |-> i - 1],
              [i \in 1..Len(list) |-> RowOf(list[i])])

\* df_or_empty(obj)
df_or_empty(obj) ==
    IF obj.t = "none" THEN EmptyFrame
    ELSE IF obj.t = "list" THEN FrameOfList(obj.v)
    ELSE FrameOfList(<<obj>>)

\* len(df)
FrameLen(df) == Len(df.rows)

\* the cell of row i in column c: NaN where the row was given none
Cell(df, i, c) == DictGet(df.rows[i], c, PyNaN)

\* the sort key of row i: its cells in the columns by, as integers
SortKey(df, i, by) == [j \in 1..Len(by) |-> Cell(df, i, by[j]).v]

\* lexicographic order of two keys of the same length
RECURSIVE KeyLess(_, _)
KeyLess(a, b) ==
    IF Len(a) = 0 THEN FALSE
    ELSE IF a[1] # b[1] THEN a[1] < b[1]
    ELSE KeyLess(Tail(a), Tail(b))

\* the order of two <<key, position>> pairs: by key, ties by position
PairLess(x, y) == KeyLess(x[1], y[1]) \/ (x[1] = y[1] /\ x[2] < y[2])

\* the frame with the rows at the positions perm, in that order
TakeRows(df, perm) ==
    DataFrame(df.cols, [i \in 1..Len(perm) |-> df.index[perm[i]]],
              [i \in 1..Len(perm) |-> df.rows[perm[i]]])

\* a sort that leaves the frame as it is
sort_values_none(df, by) == df

\* df.sort_values(by)
sort_values(df, by) ==
    LET sorted == SortSeq([i \in 1..FrameLen(df) |-> <<SortKey(df, i, by), i>>], PairLess)
    IN  TakeRows(df, [i \in 1..Len(sorted) |-> sorted[i][2]])

\* df.iloc[::stride, :]
EveryNth(df, stride) ==
    TakeRows(df, [j \in 1..((FrameLen(df) + stride - 1) \div stride) |-> 1 + (j - 1) * stride])

Max(a, b) == IF a >= b THEN a ELSE b

\* line 278: the downsample applies
Downsamples(ts, max_rows) == FrameLen(ts) > max_rows /\ "frame_idx" \in ts.cols

\* line 280: the frame in frame order
FrameOrder(ts) ==
    sort_values(ts, IF "team_id" \in ts.cols THEN <<"team_id", "frame_idx">> ELSE <<"frame_idx">>)

\* a stride that keeps at most max_rows rows
StrideCeil(n, max_rows) == Max(1, (n + max_rows - 1) \div max_rows)

\* line 281: stride = max(1, len(ts) // max_rows)
Stride(n, max_rows) == Max(1, n \div max_rows)

\* lines 278-280: the filtered series when the stride is about to be taken
DownsampleSorted(ts, max_rows) == IF Downsamples(ts, max_rows) THEN FrameOrder(ts) ELSE ts

\* lines 281-282: every stride-th row of the sorted series
DownsampleTaken(sorted, ts, max_rows) ==
    IF Downsamples(ts, max_rows)
    THEN EveryNth(sorted, Stride(FrameLen(ts), max_rows))
    ELSE ts

\* lines 278-282: the filtered series after the downsample step
Downsample(ts, max_rows) == DownsampleTaken(DownsampleSorted(ts, max_rows), ts, max_rows)

-----------------------------------------------------------------------------
(* SpecDownsample: the downsample step on series around the slider's values *)

\* line 277: st.slider(min_value=500, max_value=20000, value=5000, step=500)
SLIDER_MIN == 500
SLIDER_MAX == 20000
SLIDER_STEP == 500
SLIDER_DEFAULT == 5000
SliderValues == {SLIDER_MIN + i * SLIDER_STEP : i \in 0..((SLIDER_MAX - SLIDER_MIN) \div SLIDER_STEP)}

\* series lengths go up to MaxStride slider steps (and one row more)
MaxStride == 3
\* and there are short series of up to MaxShort rows
MaxShort == 2

DsLens ==
    (0..MaxShort) \cup {c * SLIDER_STEP + d : c \in 1..MaxStride, d \in {-1, 0, 1}}

\* the order of the rows in the report: frame by frame with the two teams
\* alternating, team by team, latest frame first, or every (team, frame) twice
DsLayouts == {"by_frame", "by_team", "latest_first", "twice"}

\* which of team_id and frame_idx the rows carry (a series without
\* frame_idx is indexed by time_s)
DsColumns == {{"team_id", "frame_idx"}, {"frame_idx"}, {"team_id", "time_s"}}

DsTeam(i, n, layout) ==
    CASE layout = "by_frame" -> (i - 1) % 2
      [] layout = "by_team" -> IF 2 * i <= n THEN 0 ELSE 1
      [] layout = "latest_first" -> (i - 1) % 2
      [] layout = "twice" -> ((i - 1) \div 2) % 2
DsFrame(i, n, layout) ==
    CASE layout = "by_frame" -> (i - 1) \div 2
      [] layout = "by_team" -> IF 2 * i <= n THEN i - 1 ELSE i - 1 - (n \div 2)
      [] layout = "latest_first" -> (n - i) \div 2
      [] layout = "twice" -> (i - 1) \div 4

DsRow(i, n, layout, cols) ==
    (IF "team_id" \in cols THEN <<<<"team_id", PyInt(DsTeam(i, n, layout))>>>> ELSE <<>>)
        \o <<<<IF "frame_idx" \in cols THEN "frame_idx" ELSE "time_s", PyInt(DsFrame(i, n, layout))>>>>

Series(n, layout, cols) ==
    DataFrame(IF n = 0 THEN {} ELSE cols, [i \in 1..n |-> i - 1], [i \in 1..n |-> DsRow(i, n, layout, cols)])

DsInit ==
    \E n \in DsLens, layout \in DsLayouts, cols \in DsColumns :
        ds = [pc |-> "filtered", ts |-> Series(n, layout, cols), max_rows |-> SLIDER_DEFAULT,
              sorted |-> EmptyFrame, out |-> EmptyFrame]

\* the slider is set and the downsample step runs
DownsampleStep ==
    /\ ds.pc = "filtered"
    /\ \E max_rows \in SliderValues :
          LET sorted == DownsampleSorted(ds.ts, max_rows)
          IN  ds' = [ds EXCEPT !.pc = "downsampled", !.max_rows = max_rows,
                               !.sorted = sorted,
                               !.out = DownsampleTaken(sorted, ds.ts, max_rows)]
    /\ UNCHANGED <<files, cache, pass, ld, co, lb, pl, rn>>

DsNext == DownsampleStep

DsDone == ds.pc = "downsampled"
DsN == FrameLen(ds.ts)
\* the k of the claims
DsK == Max(1, DsN \div ds.max_rows)
DsBy == IF "team_id" \in ds.ts.cols THEN <<"team_id", "frame_idx">> ELSE <<"frame_idx">>

\* df holds the rows of ds.ts, each once, under their labels
IsPermutation(df) ==
    /\ FrameLen(df) = DsN
    /\ {df.index[i] : i \in 1..FrameLen(df)} = 0..(DsN - 1)
    /\ \A i \in 1..FrameLen(df) : df.rows[i] = ds.ts.rows[df.index[i] + 1]

NonDecreasing(df, by) ==
    \A i \in 1..(FrameLen(df) - 1) : ~KeyLess(SortKey(df, i + 1, by), SortKey(df, i, by))
StrictlyIncreasing(df, by) ==
    \A i \in 1..(FrameLen(df) - 1) : KeyLess(SortKey(df, i, by), SortKey(df, i + 1, by))
DistinctKeys(df, by) ==
    Cardinality({SortKey(df, i, by) : i \in 1..FrameLen(df)}) = FrameLen(df)

C5_AtMostMaxRows == DsDone => FrameLen(ds.out) <= ds.max_rows

-----------------------------------------------------------------------------
(* Players tab, filter and selection: src/app.py lines 196-226 *)

ALL == PyStr(<<"(", "A", "l", "l", ")">>)

\* df.apply(f, axis=1) stored as a column: every row through f
ApplyRows(df, f(_)) ==
    DataFrame(IF FrameLen(df) = 0 THEN df.cols
              ELSE UNION {Keys(f(df.rows[i])) : i \in 1..FrameLen(df)},
              df.index, [i \in 1..FrameLen(df) |-> f(df.rows[i])])

\* lines 210-212: player_df with its label column
Labelled(player_df) == ApplyRows(player_df, WithLabel)

\* lines 215-217: "(All)" and the team names of the frame (None and NaN dropped)
team_options(player_df) ==
    {ALL} \cup (IF "team_name" \in player_df.cols
                THEN {Cell(player_df, i, "team_name") : i \in 1..FrameLen(player_df)} \ {PyNone, PyNaN}
                ELSE {})

\* the positions of the rows of df that pass Test, in order
RECURSIVE RowsWhere(_, _, _)
RowsWhere(df, Test(_), from) ==
    IF from > FrameLen(df) THEN <<>>
    ELSE (IF Test(df.rows[from]) THEN <<from>> ELSE <<>>) \o RowsWhere(df, Test, from + 1)

\* df[mask]
Where(df, Test(_)) == TakeRows(df, RowsWhere(df, Test, 1))

\* lines 220-222: the rows that pass the team filter
Filtered(player_df, team_sel) ==
    IF team_sel # ALL /\ "team_name" \in player_df.cols
    THEN LET OfTeam(r) == DictGet(r, "team_name", PyNaN) = team_sel
         IN  Where(player_df, OfTeam)
    ELSE player_df

\* the last of the rows, in place of the first
iloc_last(df) ==
    IF FrameLen(df) = 0 THEN Raise("IndexError")
    ELSE [exc |-> "", val |-> [label |-> df.index[FrameLen(df)], row |-> df.rows[FrameLen(df)]]]

\* df.iloc[0]: the first row and its index label
iloc_first(df) ==
    IF FrameLen(df) = 0 THEN Raise("IndexError")
    ELSE [exc |-> "", val |-> [label |-> df.index[1], row |-> df.rows[1]]]

\* line 226: filtered[filtered["label"] == sel].iloc[0]
SelectedRow(filtered, sel) ==
    LET HasLabel(r) == DictGet(r, "label", PyNaN) = sel
    IN  iloc_first(Where(filtered, HasLabel))

-----------------------------------------------------------------------------
(* SpecPlayers: the team filter and the player selection on small reports *)

\* a player_report has up to MaxPlayers rows
MaxPlayers == 3

BLUE == PyStr(<<"B", "l", "u", "e">>)
PlTrackIds == {PyInt(1), PyInt(2)}
PlTeams == {RED, BLUE, PyNone}

\* row i of a report: its statistics (here FGA) tell it from the other rows
PlRow(tid, team, i) ==
    PyDict(<<<<"track_id", tid>>, <<"team_name", team>>, <<"FGA", PyInt(i)>>>>)

PlReports ==
    UNION {{[i \in 1..n |-> PlRow(tids[i], teams[i], i)] :
                tids \in [1..n -> PlTrackIds], teams \in [1..n -> PlTeams]} : n \in 0..MaxPlayers}

PlInit ==
    \E rows \in PlReports :
        pl = [pc |-> "loaded", player_df |-> df_or_empty(PyList(rows)), team_sel |-> ALL,
              pick |-> 0, sel |-> PyNone, row |-> Raise("")]

\* line 196: nothing to select from
PlayersEmpty ==
    /\ pl.pc = "loaded"
    /\ FrameLen(pl.player_df) = 0
    /\ pl' = [pl EXCEPT !.pc = "warning"]
    /\ UNCHANGED <<files, cache, pass, ld, co, lb, rn, ds>>

\* lines 199-226: the user has a team and the pick-th option of the player
\* selectbox selected
PlayersSelect ==
    /\ pl.pc = "loaded"
    /\ FrameLen(pl.player_df) > 0
    /\ LET player_df == Labelled(pl.player_df)
       IN  \E team_sel \in team_options(player_df) :
             LET filtered == Filtered(player_df, team_sel)
             IN  \E pick \in 1..FrameLen(filtered) :
                   LET sel == Cell(filtered, pick, "label")
                   IN  pl' = [pc |-> "selected", player_df |-> player_df, team_sel |-> team_sel,
                              pick |-> filtered.index[pick], sel |-> sel,
                              row |-> SelectedRow(filtered, sel)]
    /\ UNCHANGED <<files, cache, pass, ld, co, lb, rn, ds>>

PlNext == PlayersEmpty \/ PlayersSelect

\* row i of the labelled frame passes the team filter and carries the label sel
PlMatches(i) ==
    /\ pl.team_sel = ALL \/ Cell(pl.player_df, i, "team_name") = pl.team_sel
    /\ Cell(pl.player_df, i, "label") = pl.sel

\* C8: the row selected by a label is the first row, in player_report order,
\* among the rows that pass the team filter and carry that label, whichever
\* of them the user picked; in particular it passes the team filter.
C8_FirstMatch ==
    pl.pc = "selected" =>
        /\ pl.row.exc = ""
        /\ \E i \in 1..FrameLen(pl.player_df) :
              /\ PlMatches(i)
              /\ \A j \in 1..(i - 1) : ~PlMatches(j)
              /\ pl.row.val.label = pl.player_df.index[i]
              /\ pl.row.val.row = pl.player_df.rows[i]

\* two rows of team Red with the same track_id, so with the same label: the
\* user picks the later one under the Red filter, the earlier one is selected
C8_Witness ==
    /\ pl.pc = "selected"
    /\ pl.team_sel = RED
    /\ pl.row.exc = ""
    /\ pl.pick > pl.row.val.label
    /\ Cardinality({i \in 1..FrameLen(pl.player_df) : PlMatches(i)}) > 1

-----------------------------------------------------------------------------
(* json.loads and load_report: src/app.py lines 52-63 *)

\* A text is the sequence of its characters.

\* the keys of the reports of the model, as json.loads reads them from a
\* text: a key is the string between the quotes
Spell(k) ==
    CASE k = "a" -> <<"a">>
      [] k = "b" -> <<"b">>
      [] k = "meta" -> <<"m", "e", "t", "a">>
      [] k = "fps" -> <<"f", "p", "s">>
      [] k = "event_log" -> <<"e", "v", "e", "n", "t", "_", "l", "o", "g">>
      [] k = "made" -> <<"m", "a", "d", "e">>
KnownKeys == {"a", "b", "meta", "fps", "event_log", "made"}
KeyOf(chars) ==
    IF \E k \in KnownKeys : Spell(k) = chars
    THEN CHOOSE k \in KnownKeys : Spell(k) = chars
    ELSE "?"

\* the result of scanning at a position: a value and the position after it,
\* or a failure (json.JSONDecodeError)
Scanned(v, next) == [ok |-> TRUE, val |-> v, next |-> next]
ScanError == [ok |-> FALSE, val |-> PyNone, next |-> 0]

\* text[i:i+len(word)] == word
StartsWith(text, i, word) ==
    i + Len(word) - 1 <= Len(text) /\ SubSeq(text, i, i + Len(word) - 1) = word

\* the first position from i on that holds no whitespace
RECURSIVE SkipSpace(_, _)
SkipSpace(text, i) ==
    IF i <= Len(text) /\ IsSpace(text[i]) THEN SkipSpace(text, i + 1) ELSE i

\* the first position from i on that holds no digit
RECURSIVE SkipDigits(_, _)
SkipDigits(text, i) ==
    IF i <= Len(text) /\ text[i] \in Digit THEN SkipDigits(text, i + 1) ELSE i

\* the position of the next quote from i on (0 when there is none)
RECURSIVE FindQuote(_, _)
FindQuote(text, i) ==
    IF i > Len(text) THEN 0 ELSE IF text[i] = "\"" THEN i ELSE FindQuote(text, i + 1)

\* a number: -? digits (. digits)?
ScanNumber(text, i) ==
    LET neg == i <= Len(text) /\ text[i] = "-"
        d0 == IF neg THEN i + 1 ELSE i
        d1 == SkipDigits(text, d0)
        hasFrac == d1 + 1 <= Len(text) /\ text[d1] = "." /\ text[d1 + 1] \in Digit
        f1 == IF hasFrac THEN SkipDigits(text, d1 + 1) ELSE d1
        whole == DigitsVal(SubSeq(text, d0, d1 - 1))
        mant == DigitsVal(SubSeq(text, d0, d1 - 1) \o SubSeq(text, d1 + 1, f1 - 1))
    IN  IF d1 = d0 THEN ScanError
        ELSE IF hasFrac THEN Scanned(NormFloat(IF neg THEN -mant ELSE mant, f1 - d1 - 1), f1)
        ELSE Scanned(PyInt(IF neg THEN -whole ELSE whole), d1)

W_null == <<"n", "u", "l", "l">>
W_true == <<"t", "r", "u", "e">>
W_false == <<"f", "a", "l", "s", "e">>
W_NaN == <<"N", "a", "N">>
W_nan == <<"n", "a", "n">>
W_Infinity == <<"I", "n", "f", "i", "n", "i", "t", "y">>

RECURSIVE ScanValue(_, _), ScanMembers(_, _, _), ScanElements(_, _, _)

\* json.scanner: the value that starts at position i
ScanValue(text, i) ==
    IF i > Len(text) THEN ScanError
    ELSE IF text[i] = "\""
    THEN LET q == FindQuote(text, i + 1)
         IN  IF q = 0 THEN ScanError ELSE Scanned(PyStr(SubSeq(text, i + 1, q - 1)), q + 1)
    ELSE IF text[i] = "{"
    THEN LET j == SkipSpace(text, i + 1)
         IN  IF j <= Len(text) /\ text[j] = "}" THEN Scanned(EmptyDict, j + 1)
             ELSE ScanMembers(text, j, <<>>)
    ELSE IF text[i] = "["
    THEN LET j == SkipSpace(text, i + 1)
         IN  IF j <= Len(text) /\ text[j] = "]" THEN Scanned(EmptyList, j + 1)
             ELSE ScanElements(text, j, <<>>)
    ELSE IF StartsWith(text, i, W_null) THEN Scanned(PyNone, i + 4)
    ELSE IF StartsWith(text, i, W_true) THEN Scanned(PyBool(TRUE), i + 4)
    ELSE IF StartsWith(text, i, W_false) THEN Scanned(PyBool(FALSE), i + 5)
    ELSE IF text[i] \in Digit \cup {"-"} /\ ScanNumber(text, i).ok THEN ScanNumber(text, i)
    ELSE IF StartsWith(text, i, W_NaN) THEN Scanned(PyNaN, i + 3)
    ELSE IF StartsWith(text, i, W_Infinity) THEN Scanned(PyInf, i + 8)
    ELSE IF StartsWith(text, i, <<"-">> \o W_Infinity) THEN Scanned(PyNegInf, i + 9)
    ELSE ScanError

\* the members of an object from position i on: "key" : value, ... }
ScanMembers(text, i, items) ==
    IF ~(i <= Len(text) /\ text[i] = "\"") THEN ScanError
    ELSE LET key == ScanValue(text, i)
             c == SkipSpace(text, key.next)
         IN  IF ~key.ok \/ ~(c <= Len(text) /\ text[c] = ":") THEN ScanError
             ELSE LET v == ScanValue(text, SkipSpace(text, c + 1))
                      e == SkipSpace(text, v.next)
                      all == items \o <<<<KeyOf(key.val.v), v.val>>>>
                  IN  IF ~v.ok \/ e > Len(text) THEN ScanError
                      ELSE IF text[e] = "}" THEN Scanned(PyDict(all), e + 1)
                      ELSE IF text[e] = "," THEN ScanMembers(text, SkipSpace(text, e + 1), all)
                      ELSE ScanError

\* the elements of an array from position i on: value, ... ]
ScanElements(text, i, elems) ==
    LET v == ScanValue(text, i)
        e == SkipSpace(text, v.next)
        all == Append(elems, v.val)
    IN  IF ~v.ok \/ e > Len(text) THEN ScanError
        ELSE IF text[e] = "]" THEN Scanned(PyList(all), e + 1)
        ELSE IF text[e] = "," THEN ScanElements(text, SkipSpace(text, e + 1), all)
        ELSE ScanError

\* json.loads(text): the document, or json.JSONDecodeError
json_loads(text) ==
    LET v == ScanValue(text, SkipSpace(text, 1))
    IN  IF v.ok /\ SkipSpace(text, v.next) = Len(text) + 1 THEN Ok(v.val)
        ELSE Raise("JSONDecodeError")

\* line 62: text.replace(": NaN", ": null").replace(": nan", ": null")
C_NaN == <<":", " ">> \o W_NaN
C_nan == <<":", " ">> \o W_nan
C_null == <<":", " ">> \o W_null
Fixed(text) == Replace(Replace(text, C_NaN, C_null), C_nan, C_null)

\* a load_report that answers a text it cannot parse with an empty report
load_report_lenient(text) ==
    LET first == json_loads(text)
        second == json_loads(Fixed(text))
    IN  IF first.exc = "" THEN [out |-> first, parses |-> 1, passes |-> 0]
        ELSE [out |-> IF second.exc = "" THEN second ELSE Ok(EmptyDict), parses |-> 2, passes |-> 1]

\* lines 58-63: the first parse returned or raised; only JSONDecodeError is
\* caught, and the text is then parsed again after the substitution
TryLoads(text, first) ==
    IF first.exc = "JSONDecodeError"
    THEN [out |-> json_loads(Fixed(text)), parses |-> 2, passes |-> 1]
    ELSE [out |-> first, parses |-> 1, passes |-> 0]

\* load_report's body on the text read from the file: the document or the
\* exception, with the number of json.loads calls and of substitution passes
load_report_body(text) == TryLoads(text, json_loads(text))

-----------------------------------------------------------------------------
(* SpecLoad: load_report on report texts with bare NaN and nan tokens *)

\* an object of the texts has up to MaxMembers members, an array up to
\* MaxElems elements
MaxMembers == 2
MaxElems == 2

\* what stands where a number is expected: a number, or one of the barewords
LdNumbers == {<<"1">>, <<"2", ".", "5">>, W_NaN, W_nan}

\* the strings of seqs joined by sep
RECURSIVE Join(_, _)
Join(seqs, sep) ==
    IF Len(seqs) = 0 THEN <<>>
    ELSE IF Len(seqs) = 1 THEN seqs[1]
    ELSE seqs[1] \o sep \o Join(Tail(seqs), sep)

\* the values of a member: a number, or an array of numbers
LdValues(comma) ==
    LdNumbers \cup
        UNION {{<<"[">> \o Join(elems, comma) \o <<"]">> : elems \in [1..n -> LdNumbers]} : n \in 1..MaxElems}

LdKey(i) == IF i = 1 THEN "a" ELSE IF i = 2 THEN "b" ELSE "meta"
Quoted(k) == <<"\"">> \o Spell(k) \o <<"\"">>

\* the texts: {"a": v, "b": w}, with or without the space after the colon
\* and after the comma, of up to members members
LdTexts(members) ==
    UNION {{<<"{">> \o Join([i \in 1..n |-> Quoted(LdKey(i)) \o colon \o vals[i]], comma) \o <<"}">> :
                vals \in [1..n -> LdValues(comma)]} :
           n \in 1..members, colon \in {<<":">>, <<":", " ">>}, comma \in {<<",">>, <<",", " ">>}}

\* the text has a bare NaN or nan
HasBareword(text) ==
    \E i \in 1..Len(text) : StartsWith(text, i, W_NaN) \/ StartsWith(text, i, W_nan)

LdInit == ld \in [pc : {"read"}, text : LdTexts(MaxMembers), out : {Ok(PyNone)}, parses : {0}, passes : {0}]

\* load_report runs on the text
LoadReportCall ==
    /\ ld.pc = "read"
    /\ LET r == load_report_body(ld.text)
       IN  ld' = [ld EXCEPT !.pc = IF r.out.exc = "" THEN "returned" ELSE "raised",
                            !.out = r.out, !.parses = r.parses, !.passes = r.passes]
    /\ UNCHANGED <<files, cache, pass, co, lb, pl, rn, ds>>

LdNext == LoadReportCall

\* C1 (as stated): on a text that is a JSON object but for bare NaN or nan
\* tokens where numbers are expected, load_report returns a document without
\* raising, after at most one substitution pass and at most two parses.
C1_NaNTolerated ==
    ld.pc \in {"returned", "raised"} =>
        /\ ld.pc = "returned"
        /\ ld.parses <= 2
        /\ ld.passes <= 1

-----------------------------------------------------------------------------
(* The render pass: src/app.py lines 85-329 *)

\* What a pass shows is the sequence of the elements it has written; each
\* names the tab it is in ("" above the tabs), the Streamlit call that wrote
\* it, the section or column it is about, and the values it displays.
El(tab, el, of) == [tab |-> tab, el |-> el, of |-> of, val |-> <<>>]
Metrics(tab, of, val) == [tab |-> tab, el |-> "metric", of |-> of, val |-> val]

TABS == <<"Overview", "Teams", "Players", "Team Time Series", "Events", "Raw">>

\* a stretch of the script: what it wrote, and the exception that ended it
Wrote(ui) == [ui |-> ui, exc |-> ""]
Failed(ui, exc) == [ui |-> ui, exc |-> exc]
\* a, then b unless a raised
Then(a, b) == IF a.exc # "" THEN a ELSE [ui |-> a.ui \o b.ui, exc |-> b.exc]

\* pd.to_numeric(x, errors="coerce") of a cell
to_numeric(x) ==
    CASE x.t \in {"int", "float", "bool"} -> x
      [] x.t = "str" ->
            IF IntOfStr(x.v).exc = "" THEN IntOfStr(x.v).val
            ELSE IF FloatOfStr(x.v).exc = "" THEN FloatOfStr(x.v).val
            ELSE PyNaN
      [] OTHER -> PyNaN

\* lines 93-118: the columns of names that the frame has, made numeric
normalize(df, names) ==
    DataFrame(df.cols, df.index,
              [i \in 1..FrameLen(df) |->
                  [j \in 1..Len(df.rows[i]) |->
                      IF df.rows[i][j][1] \in names
                      THEN <<df.rows[i][j][1], to_numeric(df.rows[i][j][2])>>
                      ELSE df.rows[i][j]]])

TEAM_NUMERIC == {"team_visible_min", "team_total_dist", "team_avg_speed", "team_max_speed",
                 "team_FGA", "team_FGM", "team_FG_pct", "avg_spacing", "avg_spread",
                 "var_spread", "avg_visible_players"}
PLAYER_NUMERIC == {"visible_frames", "first_t", "last_t", "total_dist", "avg_speed", "max_speed",
                   "avg_accel", "max_accel", "avg_jerk", "max_jerk", "visible_sec", "MIN_visible",
                   "stop_go_transitions", "sprint_count", "turn_frames", "activity_score",
                   "FGA", "FGM", "FG_pct"}
TS_NUMERIC == {"frame_idx", "time_s", "team_id", "n_players_visible", "centroid_x", "centroid_y",
               "spacing_nn_mean", "spread_pair_mean", "spread_pair_var"}

\* lines 85-91: report.get(section, default); a report that is no dict has no get
Section(report, name, default) == DictGet(report.v, name, default)

\* lines 130-157
tab_overview(meta, team_summary_df) ==
    Then(Wrote(<<El("Overview", "subheader", "meta")>>),
    Then(IF meta.t # "dict" THEN Failed(<<>>, "AttributeError")
         ELSE Wrote(<<Metrics("Overview", "meta",
                        <<PyStr(Format(DictGet(meta.v, "source_video", DASH))),
                          safe_float(DictGet(meta.v, "fps", PyNaN), PyFloat(0, 0)).val,
                          safe_int(DictGet(meta.v, "total_frames_logged", PyNaN), PyInt(0)).val>>)>>
                    \o (IF NonBlankStr(DictGet(meta.v, "note", PyNone))
                        THEN <<El("Overview", "info", "note")>> ELSE <<>>)),
    Then(Wrote(<<El("Overview", "subheader", "team_summary")>>),
         IF FrameLen(team_summary_df) = 0
         THEN Wrote(<<El("Overview", "warning", "team_summary")>>)
         ELSE IF "team_id" \notin team_summary_df.cols THEN Failed(<<>>, "KeyError")
         ELSE Wrote(<<El("Overview", "metric", "team_summary"),
                      El("Overview", "dataframe", "team_summary")>>))))

\* lines 162-188
tab_teams(team_summary_df) ==
    Wrote(<<El("Teams", "subheader", "team_summary"),
            IF FrameLen(team_summary_df) = 0
            THEN El("Teams", "warning", "team_summary")
            ELSE El("Teams", "dataframe", "team_summary")>>)

\* lines 193-252, with the selectboxes at their first option
tab_players(player_df0) ==
    Then(Wrote(<<El("Players", "subheader", "player_report")>>),
         IF FrameLen(player_df0) = 0
         THEN Wrote(<<El("Players", "warning", "player_report")>>)
         ELSE LET player_df == Labelled(player_df0)
                  filtered == Filtered(player_df, ALL)
                  row == SelectedRow(filtered, Cell(filtered, 1, "label"))
              IN  IF row.exc # "" THEN Failed(<<>>, row.exc)
                  ELSE Wrote(<<Metrics("Players", "player_report",
                                   <<safe_int(DictGet(row.val.row, "FGA", PyNaN), PyInt(0)).val>>),
                               El("Players", "json", "player_report"),
                               El("Players", "dataframe", "player_report")>>))

\* lines 264-268: the teams the multiselect offers
UNKNOWN_TEAM == PyStr(<<"(", "u", "n", "k", "n", "o", "w", "n", ")">>)
ts_teams(team_ts_df) ==
    LET named == IF "team_name" \in team_ts_df.cols
                 THEN {Cell(team_ts_df, i, "team_name") : i \in 1..FrameLen(team_ts_df)} \ {PyNone, PyNaN}
                 ELSE {}
    IN  IF named = {} THEN {UNKNOWN_TEAM} ELSE named

\* lines 272-274: the rows of the picked teams
ts_filtered(team_ts_df, team_pick) ==
    IF "team_name" \in team_ts_df.cols /\ team_pick # {}
    THEN LET Picked(r) == DictGet(r, "team_name", PyNaN) \in team_pick
         IN  Where(team_ts_df, Picked)
    ELSE team_ts_df

METRICS == <<"spacing_nn_mean", "spread_pair_mean", "spread_pair_var",
             "centroid_x", "centroid_y", "n_players_visible">>

\* lines 298-308: the chart of the metric, or the message that it cannot be drawn
ts_chart(ts, metric) ==
    IF metric \notin ts.cols
    THEN Wrote(<<El("Team Time Series", "error", metric)>>)
    ELSE LET x_col == IF "time_s" \in ts.cols THEN "time_s" ELSE "frame_idx"
         IN  IF x_col \notin ts.cols
             THEN Wrote(<<El("Team Time Series", "error", "time_s/frame_idx")>>)
             ELSE IF {x_col, "team_name", metric} \subseteq ts.cols
             THEN Wrote(<<El("Team Time Series", "line_chart", metric)>>)
             ELSE Failed(<<>>, "KeyError")

\* the table below the chart: its rows, by their index labels
TsTable(ts) ==
    [tab |-> "Team Time Series", el |-> "dataframe", of |-> "team_frame_series",
     val |-> [i \in 1..FrameLen(ts) |-> PyInt(ts.index[i])]]

\* lines 257-311
tab_timeseries(team_ts_df, team_pick, max_rows, metric) ==
    Then(Wrote(<<El("Team Time Series", "subheader", "team_frame_series")>>),
         IF FrameLen(team_ts_df) = 0
         THEN Wrote(<<El("Team Time Series", "warning", "team_frame_series")>>)
         ELSE LET ts == Downsample(ts_filtered(team_ts_df, team_pick), max_rows)
              IN  Then(ts_chart(ts, metric), Wrote(<<TsTable(ts)>>)))

\* lines 316-322
tab_events(events_df) ==
    Wrote(<<El("Events", "subheader", "event_log"),
            IF FrameLen(events_df) = 0
            THEN El("Events", "info", "event_log")
            ELSE El("Events", "dataframe", "event_log")>>)

\* lines 327-329
tab_raw(report) == Wrote(<<El("Raw", "subheader", "report"), El("Raw", "json", "report")>>)

\* lines 85-329: the script from the loaded report on, for the widget state w
render(report, w) ==
    IF report.t # "dict" THEN Failed(<<>>, "AttributeError")
    ELSE LET meta == Section(report, "meta", EmptyDict)
             team_summary_df == normalize(df_or_empty(Section(report, "team_summary", EmptyList)), TEAM_NUMERIC)
             player_df == normalize(df_or_empty(Section(report, "player_report", EmptyList)), PLAYER_NUMERIC)
             team_ts_df == normalize(df_or_empty(Section(report, "team_frame_series", EmptyList)), TS_NUMERIC)
             events_df == df_or_empty(Section(report, "event_log", EmptyList))
         IN  Then(tab_overview(meta, team_summary_df),
             Then(tab_teams(team_summary_df),
             Then(tab_players(player_df),
             Then(tab_timeseries(team_ts_df, w.team_pick, w.max_rows, w.metric),
             Then(tab_events(events_df),
                  tab_raw(report))))))

-----------------------------------------------------------------------------
(* SpecRender: one render pass over report objects with sections absent,    *)
(* empty and filled                                                         *)

\* a section the report does not have
Absent == [t |-> "absent"]

RnMetas ==
    {Absent, PyNone, EmptyDict,
     PyDict(<<<<"source_video", PyStr(<<"v">>)>>, <<"fps", PyInt(30)>>, <<"total_frames_logged", PyInt(90)>>>>)}
RnTeamSummaries ==
    {Absent,
     PyList(<<PyDict(<<<<"team_id", PyInt(0)>>, <<"team_name", RED>>, <<"team_FGA", PyInt(3)>>>>)>>),
     PyList(<<PyDict(<<<<"team_name", RED>>, <<"team_FGA", PyInt(3)>>>>)>>)}
RnPlayerReports == {Absent, PyList(<<PlRow(PyInt(1), RED, 1), PlRow(PyInt(2), BLUE, 2)>>)}
RnEventLogs == {Absent, EmptyList, PyList(<<PyDict(<<<<"shooter_track_id", PyInt(1)>>, <<"made", PyBool(TRUE)>>>>)>>)}

\* the columns a team_frame_series row may carry besides team_id
RnTsColumns == {"team_name", "frame_idx", "time_s", "spacing_nn_mean"}
\* row i (of team i) of a series with the columns cols
RnTsRow(i, cols) ==
    <<<<"team_id", PyInt(i)>>>>
        \o (IF "team_name" \in cols THEN <<<<"team_name", IF i = 0 THEN RED ELSE BLUE>>>> ELSE <<>>)
        \o (IF "frame_idx" \in cols THEN <<<<"frame_idx", PyInt(0)>>>> ELSE <<>>)
        \o (IF "time_s" \in cols THEN <<<<"time_s", PyFloat(0, 0)>>>> ELSE <<>>)
        \o (IF "spacing_nn_mean" \in cols THEN <<<<"spacing_nn_mean", PyFloat(15, 1)>>>> ELSE <<>>)
RnSeries ==
    {Absent, EmptyList}
        \cup {PyList(<<PyDict(RnTsRow(0, cols)), PyDict(RnTsRow(1, cols))>>) : cols \in SUBSET RnTsColumns}

Member(k, x) == IF x = Absent THEN <<>> ELSE <<<<k, x>>>>

RnReports ==
    {PyDict(Member("meta", m) \o Member("team_summary", t) \o Member("player_report", p)
                \o Member("team_frame_series", s) \o Member("event_log", e)) :
        m \in RnMetas, t \in RnTeamSummaries, p \in RnPlayerReports, s \in RnSeries, e \in RnEventLogs}

\* the values of the row-cap slider the passes try
RnMaxRows == {SLIDER_MIN, SLIDER_DEFAULT, SLIDER_MAX}
\* the teams the multiselect of a report offers
RnTeams(report) ==
    ts_teams(normalize(df_or_empty(Section(report, "team_frame_series", EmptyList)), TS_NUMERIC))
\* the widgets matter only to a pass that has a series to show
RnHasSeries(report) == Section(report, "team_frame_series", EmptyList) # EmptyList
DefaultWidgets(report) ==
    [team_pick |-> RnTeams(report), max_rows |-> SLIDER_DEFAULT, metric |-> METRICS[1]]

RnInit == rn \in [pc : {"loaded"}, report : RnReports, w : {[team_pick |-> {}, max_rows |-> 0, metric |-> ""]},
                  out : {Wrote(<<>>)}]

\* the script runs from line 85 to its end, with the widgets in some state
RenderPass ==
    /\ rn.pc = "loaded"
    /\ \E w \in IF RnHasSeries(rn.report)
                THEN [team_pick : SUBSET RnTeams(rn.report), max_rows : RnMaxRows,
                      metric : {METRICS[i] : i \in 1..Len(METRICS)}]
                ELSE {DefaultWidgets(rn.report)} :
          rn' = [rn EXCEPT !.pc = "rendered", !.w = w, !.out = render(rn.report, w)]
    /\ UNCHANGED <<files, cache, pass, ld, co, lb, pl, ds>>

RnNext == RenderPass

\* the pass wrote an element el about section in tab
Shows(out, tab, el, section) ==
    \E i \in 1..Len(out.ui) : out.ui[i].tab = tab /\ out.ui[i].el = el /\ out.ui[i].of = section
\* the pass wrote something in tab beyond its subheader
Renders(out, tab) ==
    \E i \in 1..Len(out.ui) : out.ui[i].tab = tab /\ out.ui[i].el # "subheader"
RnAbsent(section) == ~HasKey(rn.report.v, section)

\* C6 (as stated): whatever sections a report lacks, the pass completes
\* without a fault, every view of an absent section is its placeholder (zero
\* metrics for meta, a warning or info notice for the tables), and every
\* other view renders.  (A report whose meta is null is left aside: its
\* section is there, and is no dict.)
C6_MissingSections ==
    rn.pc = "rendered" /\ Section(rn.report, "meta", EmptyDict) # PyNone =>
        /\ rn.out.exc = ""
        /\ \A i \in 1..Len(TABS) : Renders(rn.out, TABS[i])
        /\ RnAbsent("meta") =>
              \E i \in 1..Len(rn.out.ui) :
                  rn.out.ui[i] = Metrics("Overview", "meta", <<DASH, PyFloat(0, 0), PyInt(0)>>)
        /\ RnAbsent("team_summary") =>
              Shows(rn.out, "Overview", "warning", "team_summary")
                  /\ Shows(rn.out, "Teams", "warning", "team_summary")
        /\ RnAbsent("player_report") => Shows(rn.out, "Players", "warning", "player_report")
        /\ RnAbsent("team_frame_series") =>
              Shows(rn.out, "Team Time Series", "warning", "team_frame_series")
        /\ RnAbsent("event_log") => Shows(rn.out, "Events", "info", "event_log")

\* the series of the pass has rows, none with a team_name
RnNoTeamName ==
    LET s == Section(rn.report, "team_frame_series", EmptyList)
    IN  s # EmptyList /\ \A i \in 1..Len(s.v) : ~HasKey(s.v[i].v, "team_name")

\* C10 (as stated): when the series has rows but no team_name column, the
\* time-series view offers the one team "(unknown)", filters nothing, and
\* completes - the chart or an error message, then the table of all the
\* rows - without raising, whatever the metric and the row cap.
C10_UnknownTeam ==
    rn.pc = "rendered" /\ RnNoTeamName /\ Shows(rn.out, "Team Time Series", "subheader", "team_frame_series") =>
        /\ RnTeams(rn.report) = {UNKNOWN_TEAM}
        /\ rn.out.exc = ""
        /\ Shows(rn.out, "Team Time Series", "line_chart", rn.w.metric)
              \/ Shows(rn.out, "Team Time Series", "error", rn.w.metric)
              \/ Shows(rn.out, "Team Time Series", "error", "time_s/frame_idx")
        /\ \E i \in 1..Len(rn.out.ui) :
              /\ rn.out.ui[i].el = "dataframe" /\ rn.out.ui[i].of = "team_frame_series"
              /\ Len(rn.out.ui[i].val) = Len(Section(rn.report, "team_frame_series", EmptyList).v)

-----------------------------------------------------------------------------
(* Spec: the script run again and again on files that change, with the      *)
(* st.cache_data cache of load_report: src/app.py lines 52-53, 76-83        *)

\* line 76: DEFAULT_PATH, and another path the user may enter
DEFAULT_PATH == "report_outputs/report.json"
Paths == {DEFAULT_PATH, "other/report.json"}

NoFile == <<"no file">>
NoEntry == [t |-> "noentry"]

\* {"meta": {"fps": <fps>}} with the given separator after the colons
MetaText(colon, fps) ==
    <<"{">> \o Quoted("meta") \o colon \o <<"{">> \o Quoted("fps") \o colon \o fps \o <<"}", "}">>

\* the texts a report file may hold: two reports, a report with a bare nan
\* after ": " and one with it right after ":", a report cut short, and a
\* document that is no object
TXT_A == MetaText(<<":", " ">>, <<"3", "0">>)
TXT_B == MetaText(<<":", " ">>, <<"2", "5">>)
TXT_NAN == MetaText(<<":", " ">>, W_nan)
TXT_NAN_TIGHT == MetaText(<<":">>, W_nan)
TXT_CUT == SubSeq(TXT_A, 1, Len(TXT_A) - 2)
TXT_LIST == <<"[", "1", "]">>
Texts == {TXT_A, TXT_B, TXT_NAN, TXT_NAN_TIGHT, TXT_CUT, TXT_LIST}

\* lines 52-63: load_report(path_str) under @st.cache_data: the entry of
\* path_str if there is one, else the body's result, which is stored unless
\* the body raised
Memoized(path_str, entries, r) ==
    [out |-> r.out, hit |-> FALSE,
     entries |-> IF r.out.exc = "" THEN [entries EXCEPT ![path_str] = r.out.val] ELSE entries]

load_report(path_str, fs, entries) ==
    IF entries[path_str] # NoEntry
    THEN [out |-> Ok(entries[path_str]), hit |-> TRUE, entries |-> entries]
    ELSE Memoized(path_str, entries, load_report_body(fs[path_str]))

\* Streamlit ends a run that raised by showing the exception where the
\* script was writing
Uncaught(out) ==
    IF out.exc = "" THEN out
    ELSE [ui |-> Append(out.ui, El(IF Len(out.ui) = 0 THEN "" ELSE out.ui[Len(out.ui)].tab,
                                   "exception", out.exc)),
          exc |-> out.exc]

\* lines 83-329: the script from the return of load_report, l, on
Loaded(l) ==
    IF l.out.exc # ""
    THEN [out |-> Uncaught(Failed(<<>>, l.out.exc)), stopped |-> FALSE, hit |-> l.hit,
          report |-> PyNone, entries |-> l.entries]
    ELSE [out |-> Uncaught(render(l.out.val, DefaultWidgets(l.out.val))), stopped |-> FALSE,
          hit |-> l.hit, report |-> l.out.val, entries |-> l.entries]

\* lines 77-329: one run of the script with report_path entered
script(report_path, fs, entries) ==
    IF fs[report_path] = NoFile
    THEN [out |-> Wrote(<<El("", "error", "report_path")>>), stopped |-> TRUE, hit |-> FALSE,
          report |-> PyNone, entries |-> entries]
    ELSE Loaded(load_report(report_path, fs, entries))

Init ==
    /\ files = [p \in Paths |-> NoFile]
    /\ cache = [p \in Paths |-> NoEntry]
    /\ pass = [pc |-> "start", report_path |-> DEFAULT_PATH, text |-> NoFile, hit |-> FALSE,
               stopped |-> FALSE, report |-> PyNone, out |-> Wrote(<<>>)]
    /\ ld = Idle /\ co = Idle /\ lb = Idle /\ pl = Idle /\ rn = Idle /\ ds = Idle

\* the pipeline writes a report file, or something else does
WriteFile(p, text) ==
    /\ files[p] # text
    /\ files' = [files EXCEPT ![p] = text]
    /\ UNCHANGED <<cache, pass, ld, co, lb, pl, rn, ds>>

DeleteFile(p) ==
    /\ files[p] # NoFile
    /\ files' = [files EXCEPT ![p] = NoFile]
    /\ UNCHANGED <<cache, pass, ld, co, lb, pl, rn, ds>>

\* the user enters a path, or touches a widget: the script runs top to bottom
RunScript(p) ==
    /\ \E r \in {script(p, files, cache)} :
           /\ pass' = [pc |-> "done", report_path |-> p, text |-> files[p], hit |-> r.hit,
                       stopped |-> r.stopped, report |-> r.report, out |-> r.out]
           /\ cache' = r.entries
    /\ UNCHANGED <<files, ld, co, lb, pl, rn, ds>>

Next ==
    \/ \E p \in Paths, text \in Texts : WriteFile(p, text)
    \/ \E p \in Paths : DeleteFile(p)
    \/ \E p \in Paths : RunScript(p)

Spec == Init /\ [][Next]_vars

\* the text parses neither as it is nor after the NaN fallback
Unparsable(text) == json_loads(text).exc # "" /\ json_loads(Fixed(text)).exc # ""

\* the pass had to load the report, and could not
LoadFailed == pass.text = NoFile \/ (~pass.hit /\ Unparsable(pass.text))

\* C2: in a pass whose loading fails - the path does not exist, or the text
\* read does not parse even after the NaN fallback - an error is shown to the
\* user and the pass halts with nothing written in any of the six tabs.
C2_NoPartialDashboard ==
    pass.pc = "done" /\ LoadFailed =>
        /\ pass.stopped \/ pass.out.exc # ""
        /\ \E i \in 1..Len(pass.out.ui) :
              pass.out.ui[i].tab = "" /\ pass.out.ui[i].el \in {"error", "exception"}
        /\ \A i \in 1..Len(pass.out.ui) : pass.out.ui[i].tab = ""
        /\ pass.report = PyNone

\* a file with a bare nan that the fallback does not reach: both parses
\* fail, the exception is shown, no tab is written
C2_Witness ==
    /\ pass.pc = "done"
    /\ pass.text = TXT_NAN_TIGHT
    /\ ~pass.hit
    /\ pass.out.exc = "JSONDecodeError"
    /\ pass.out.ui = <<El("", "exception", "JSONDecodeError")>>

\* C9 (as stated): the report a pass renders for its path is the one parsed
\* from the content the file has at that pass: no stale report is served.
C9_NeverStale ==
    pass.pc = "done" /\ pass.text # NoFile /\ pass.report # PyNone /\ pass.out.exc = "" =>
        pass.report = load_report_body(pass.text).out.val

-----------------------------------------------------------------------------
(* The specifications of the parts, each on its own variable                *)

SpecLoadInit ==
    /\ LdInit
    /\ files = Idle /\ cache = Idle /\ pass = Idle
    /\ co = Idle /\ lb = Idle /\ pl = Idle /\ rn = Idle /\ ds = Idle

SpecLoad == SpecLoadInit /\ [][LdNext]_vars

SpecCoerceInit ==
    /\ CoInit
    /\ files = Idle /\ cache = Idle /\ pass = Idle
    /\ ld = Idle /\ lb = Idle /\ pl = Idle /\ rn = Idle /\ ds = Idle

SpecCoerce == SpecCoerceInit /\ [][CoNext]_vars

SpecLabelInit ==
    /\ LbInit
    /\ files = Idle /\ cache = Idle /\ pass = Idle
    /\ ld = Idle /\ co = Idle /\ pl = Idle /\ rn = Idle /\ ds = Idle

SpecLabel == SpecLabelInit /\ [][LbNext]_vars

SpecPlayersInit ==
    /\ PlInit
    /\ files = Idle /\ cache = Idle /\ pass = Idle
    /\ ld = Idle /\ co = Idle /\ lb = Idle /\ rn = Idle /\ ds = Idle

SpecPlayers == SpecPlayersInit /\ [][PlNext]_vars

SpecRenderInit ==
    /\ RnInit
    /\ files = Idle /\ cache = Idle /\ pass = Idle
    /\ ld = Idle /\ co = Idle /\ lb = Idle /\ pl = Idle /\ ds = Idle

SpecRender == SpecRenderInit /\ [][RnNext]_vars

SpecDownsampleInit ==
    /\ DsInit
    /\ files = Idle /\ cache = Idle /\ pass = Idle
    /\ ld = Idle /\ co = Idle /\ lb = Idle /\ pl = Idle /\ rn = Idle

SpecDownsample == SpecDownsampleInit /\ [][DsNext]_vars

=============================================================================
